---- MODULE Spec2Model ----
(***************************************************************************)
(* Model of pnt_rust: the orbit propagator (src/src/satellite.rs) and the  *)
(* RINEX navigation parser and time utility (src/src/gnss.rs).             *)
(*                                                                         *)
(* Numbers.  The program computes in f64; the model computes the same      *)
(* expressions exactly, in fixed point:                                    *)
(*   - instants and durations are integers in microseconds (chrono's       *)
(*     num_microseconds resolution); a value in seconds is that integer    *)
(*     read with six decimals, a value in milliseconds with three;         *)
(*   - angles are integers in units of 1e-9 rad, eccentricity in 1/1000.   *)
(* A Rust panic is the value of the variable `panicked`; a panicked run    *)
(* takes no further step.                                                  *)
(***************************************************************************)
EXTENDS Integers, Sequences, FiniteSets, TLC

VARIABLES
    states,     \* Satellite.states: sequence of gnss::State
    ret,        \* <<n>>: the last propagate call returned n; <<>>: none did
    call,       \* <<arguments of the last propagate call>>, or <<>>
    before,     \* self.states as the last propagate call found it
    panicked,   \* "no", or the panic that ended the run
    file,       \* the lines of the navigation file given to from_file
    blocks,     \* the record blocks the file was written from
    pos,        \* number of lines the reader has consumed
    phase,      \* "idle", "header", "records" or "done": where from_file is
    records,    \* the Vec<NavRecord> under construction
    last        \* <<the lines the last record iteration read>>, or <<>>

propVars == <<states, ret, call, before>>
parseVars == <<file, blocks, pos, phase, records, last>>
vars == <<states, ret, call, before, panicked, file, blocks, pos, phase,
          records, last>>

\* ---------------------------------------------------------------- bounds
\* Largest number of epochs of one propagate call.
MaxEpochs == 3
\* Largest number of record blocks in a navigation file.
MaxBlocks == 2

\* ------------------------------------------------------ program constants
LEAP_SECONDS == 18
HALF_WEEK == 302400
max_iter == 30
\* 1e-8 rad in units of 1e-9 rad
tolerance == 10
\* 1e6 microseconds per second (gnss.rs: "/ 1e6")
MICROS == 1000000
\* 1000 milliseconds per second (gnss.rs: "* 1000.0", satellite.rs: "/ 1000.0")
MILLIS == 1000

Abs(x) == IF x < 0 THEN -x ELSE x

\* Division rounding toward zero, as f64 -> integer casts and fmod do.
TruncDiv(a, b) == IF a >= 0 THEN a \div b ELSE -((-a) \div b)

\* The sequence <<F(1), ..., F(n)>>, computed element by element.
RECURSIVE Tabulate(_, _)
Tabulate(F(_), n) == IF n = 0 THEN <<>> ELSE Append(Tabulate(F, n - 1), F(n))

RECURSIVE SumSeq(_)
SumSeq(s) == IF s = <<>> THEN 0 ELSE Head(s) + SumSeq(Tail(s))

\* ------------------------------------------------------------ time utility
\* Duration::as_millis of a duration given in microseconds.
as_millis(d) == d \div MILLIS

\* calculate_gps_time: (microseconds since the GPS epoch / 1e6 + 18) * 1000,
\* a number of milliseconds; the result is kept in microseconds (three decimals).
calculate_gps_time(time) == time + LEAP_SECONDS * MICROS

\* ------------------------------------------------------- orbit propagator
\* Number of requested epochs: duration.as_millis() / step.as_millis().
\* Integer division by zero panics in Rust; the caller tests for it first.
SampleCount(duration, step) == as_millis(duration) \div as_millis(step)

\* gps_times: calculate_gps_time(start + step * i) / 1000.0 for i in 0..count,
\* in seconds (six decimals).
GpsTimes(start, count, step) ==
    Tabulate(LAMBDA i : calculate_gps_time(start + step * (i - 1)), count)

\* Key of min_by_key: ((record.gps_millis - time).abs() * 1000.0) as u64,
\* with time in seconds (six decimals).  time * 1000 is q + r/1000.
SelectionKey(record, time) ==
    LET a == record.gps_millis * MILLIS
        q == time \div MILLIS
        r == time % MILLIS
        up == IF r > 0 THEN q + 1 ELSE q
    IN  IF a >= up THEN a - up ELSE q - a

\* min_by_key as it would be with the last minimal element returned (as
\* max_by_key does for maximal ones).
MinByKeyLast(keys) ==
    CHOOSE i \in 1..Len(keys) :
        /\ \A j \in 1..Len(keys) : keys[i] <= keys[j]
        /\ \A j \in (i + 1)..Len(keys) : keys[j] > keys[i]

\* Iterator::min_by_key over an enumerated slice: the position (from 1) of the
\* first element whose key is minimal.
MinByKey(keys) ==
    CHOOSE i \in 1..Len(keys) :
        /\ \A j \in 1..Len(keys) : keys[i] <= keys[j]
        /\ \A j \in 1..(i - 1) : keys[j] > keys[i]

\* closest_indices, counted from 1; on an empty slice min_by_key is None and
\* unwrap_or(0) yields the first position.
ClosestIndex(ephemeris_data, time) ==
    IF ephemeris_data = <<>> THEN 1
    ELSE MinByKey(Tabulate(LAMBDA k : SelectionKey(ephemeris_data[k], time),
                           Len(ephemeris_data)))

\* The f64 remainder x % w (fmod: the result has the sign of x) of the number
\* xs + xf/1e6, 0 <= xf < 1e6, as such a pair again.
Fmod(xs, xf, w) ==
    IF xs >= 0 THEN [s |-> xs % w, us |-> xf]
    ELSE LET ys == IF xf = 0 THEN -xs ELSE -xs - 1
             yf == IF xf = 0 THEN 0 ELSE MICROS - xf
         IN  IF yf = 0 THEN [s |-> -(ys % w), us |-> 0]
             ELSE [s |-> -(ys % w) - 1, us |-> MICROS - yf]

\* tk = (gps_time - toe + half_week) % (2 * half_week) - half_week, as whole
\* seconds s plus us microseconds (0 <= us < 1e6); toe in whole seconds.
TimeFromEphemeris(time, toe) ==
    LET x == Fmod((time \div MICROS) - toe + HALF_WEEK, time % MICROS,
                  2 * HALF_WEEK)
    IN  [s |-> x.s - HALF_WEEK, us |-> x.us]

\* m = m0 + n * tk, where n = sqrt(MU_EARTH / a^3) + delta_n is the record's
\* mean motion (field n, in 1e-9 rad/s).
MeanAnomaly(record, tk) ==
    record.m0 + record.n * tk.s + TruncDiv(record.n * tk.us, MICROS)

\* f64::sin on |x| <= 1e7 (0.01 rad), in units of 1e-9 rad: x - x^3/6, whose
\* next term is below one unit there.
Sin(x) ==
    LET q == TruncDiv(x, 10000)
    IN  x - TruncDiv(q * q * q, 6000000)

\* One fixed-point step for all epochs: e_next = m + e * sin(e_array).
KeplerStep(m, e, e_array) ==
    Tabulate(LAMBDA i : m[i] + TruncDiv(e[i] * Sin(e_array[i]), MILLIS), Len(m))

\* The stopping test: the sum over the epochs of |e_next - e_array| is below
\* the tolerance.
Converged(e_next, e_array) ==
    SumSeq(Tabulate(LAMBDA i : Abs(e_next[i] - e_array[i]), Len(e_next)))
        < tolerance

RECURSIVE KeplerLoop(_, _, _, _)
KeplerLoop(m, e, e_array, k) ==
    IF k = max_iter THEN e_array
    ELSE LET e_next == KeplerStep(m, e, e_array)
         IN  IF Converged(e_next, e_array) THEN e_next
             ELSE KeplerLoop(m, e, e_next, k + 1)

solve_kepler_robust(m, e) == KeplerLoop(m, e, m, 0)

\* The states of one batch of `count` epochs.  The ECEF position is a function
\* of the selected record, tk and the eccentric anomaly (steps 5 to 10 are
\* per-epoch arithmetic); the model keeps these three as the position.
BatchStates(start, count, step, ephemeris_data) ==
    LET gps_times == GpsTimes(start, count, step)
        closest_indices ==
            Tabulate(LAMBDA i : ClosestIndex(ephemeris_data, gps_times[i]), count)
        nav == Tabulate(LAMBDA i : ephemeris_data[closest_indices[i]], count)
        tk == Tabulate(LAMBDA i : TimeFromEphemeris(gps_times[i], nav[i].toe),
                       count)
        m == Tabulate(LAMBDA i : MeanAnomaly(nav[i], tk[i]), count)
        e == Tabulate(LAMBDA i : nav[i].eccentricity, count)
        e_array == solve_kepler_robust(m, e)
    IN  Tabulate(LAMBDA i :
            [time |-> gps_times[i],
             position |-> [nav_record |-> closest_indices[i],
                           tk |-> tk[i],
                           e_array |-> e_array[i]]], count)

\* self.states without the clear(): the new states appended to the old.
StoreStatesAppended(old, new) == old \o new

\* What the call leaves in self.states: clear(), then one push per epoch.
StoreStates(old, new) == new

\* Satellite::propagate as a whole: the states it leaves, the value it
\* returns and the panic it ends in, in the order the code reaches them.
Propagate(old, start, duration, step, ephemeris_data) ==
    IF as_millis(step) = 0
    THEN [states |-> old, ret |-> <<>>, panicked |-> "divide by zero"]
    ELSE LET count == SampleCount(duration, step)
         IN  IF count > 0 /\ ephemeris_data = <<>>
             THEN [states |-> old, ret |-> <<>>,
                   panicked |-> "index out of bounds: ephemeris_data"]
             ELSE LET new == StoreStates(old,
                                BatchStates(start, count, step, ephemeris_data))
                  IN  IF new = <<>>
                      THEN [states |-> new, ret |-> <<>>,
                            panicked |-> "index out of bounds: states[0]"]
                      ELSE [states |-> new, ret |-> <<Len(new)>>, panicked |-> "no"]

\* -------------------------------------------------------- ephemeris parser
\* A line is a string (ASCII, so bytes and chars coincide).  An f64 read from
\* text is the exact decimal m * 10^x, kept normalised: m not divisible by 10,
\* and 0.0 is [m |-> 0, x |-> 0].
Zero == [m |-> 0, x |-> 0]

\* The i-th character of s, from 1.
Char(s, i) == SubSeq(s, i, i)

DigitVal ==
    ("0" :> 0) @@ ("1" :> 1) @@ ("2" :> 2) @@ ("3" :> 3) @@ ("4" :> 4) @@
    ("5" :> 5) @@ ("6" :> 6) @@ ("7" :> 7) @@ ("8" :> 8) @@ ("9" :> 9)

IsDigits(s) == \A i \in 1..Len(s) : Char(s, i) \in DOMAIN DigitVal

RECURSIVE DigitsToInt(_)
DigitsToInt(s) ==
    IF s = "" THEN 0
    ELSE 10 * DigitsToInt(SubSeq(s, 1, Len(s) - 1)) + DigitVal[Char(s, Len(s))]

\* &line[from..to] with byte offsets from 0, end exclusive; the caller has
\* checked to <= len (Rust panics otherwise).
Slice(line, from, to) == SubSeq(line, from + 1, to)

\* str::trim
RECURSIVE TrimStart(_)
TrimStart(s) ==
    IF s # "" /\ Char(s, 1) = " " THEN TrimStart(SubSeq(s, 2, Len(s))) ELSE s

RECURSIVE TrimEnd(_)
TrimEnd(s) ==
    IF s # "" /\ Char(s, Len(s)) = " "
    THEN TrimEnd(SubSeq(s, 1, Len(s) - 1)) ELSE s

Trim(s) == TrimEnd(TrimStart(s))

\* str::split_whitespace
RECURSIVE SplitWhitespace(_)
SplitWhitespace(s) ==
    LET t == TrimStart(s)
    IN  IF t = "" THEN <<>>
        ELSE LET ends == {i \in 1..Len(t) : Char(t, i) = " "}
                 n == IF ends = {} THEN Len(t)
                      ELSE (CHOOSE i \in ends : \A j \in ends : i <= j) - 1
             IN  <<SubSeq(t, 1, n)>> \o SplitWhitespace(SubSeq(t, n + 1, Len(t)))

\* str::replace('D', "E")
RECURSIVE ReplaceD(_)
ReplaceD(s) ==
    IF s = "" THEN ""
    ELSE ReplaceD(SubSeq(s, 1, Len(s) - 1)) \o
         (IF Char(s, Len(s)) = "D" THEN "E" ELSE Char(s, Len(s)))

\* str::contains
Contains(line, pat) ==
    \E i \in 0..(Len(line) - Len(pat)) : SubSeq(line, i + 1, i + Len(pat)) = pat

\* Position of the first occurrence of character c in s, or 0.
Find(s, c) ==
    IF \E i \in 1..Len(s) : Char(s, i) = c
    THEN CHOOSE i \in 1..Len(s) :
             Char(s, i) = c /\ \A j \in 1..(i - 1) : Char(s, j) # c
    ELSE 0

RECURSIVE StripTrailingZeros(_)
StripTrailingZeros(s) ==
    IF s # "" /\ Char(s, Len(s)) = "0"
    THEN StripTrailingZeros(SubSeq(s, 1, Len(s) - 1)) ELSE s

\* str::parse::<i32> and ::<u8>: an optional sign ('-' for i32 only), then
\* digits; a value above max is an overflow error (the inputs hold no digit
\* string longer than nine characters).
ParseInteger(s, signed, max) ==
    LET neg == signed /\ s # "" /\ Char(s, 1) = "-"
        body == IF s # "" /\ (Char(s, 1) = "+" \/ neg)
                THEN SubSeq(s, 2, Len(s)) ELSE s
    IN  IF body = "" \/ ~IsDigits(body) \/ Len(body) > 9
        THEN [ok |-> FALSE, v |-> 0]
        ELSE LET v == DigitsToInt(body)
             IN  IF v > max THEN [ok |-> FALSE, v |-> 0]
                 ELSE [ok |-> TRUE, v |-> IF neg THEN -v ELSE v]

\* str::parse::<f64> of a decimal number: sign? (digits [. digits?] | . digits)
\* [E sign? digits].  (inf and nan are not in the alphabet of the inputs.)
HasSign(s) == s # "" /\ Char(s, 1) \in {"+", "-"}
IsNegative(s) == s # "" /\ Char(s, 1) = "-"
Unsigned(s) == IF HasSign(s) THEN SubSeq(s, 2, Len(s)) ELSE s

\* Position of the exponent marker in an unsigned number, or 0.
ExpPos(body) == IF Find(body, "E") # 0 THEN Find(body, "E") ELSE Find(body, "e")

\* The exponent after the marker: sign? digits.
ParseExponent(expo) ==
    IF Unsigned(expo) = "" \/ ~IsDigits(Unsigned(expo)) \/ Len(Unsigned(expo)) > 3
    THEN [ok |-> FALSE, v |-> 0]
    ELSE [ok |-> TRUE,
          v |-> IF IsNegative(expo) THEN -DigitsToInt(Unsigned(expo))
                ELSE DigitsToInt(Unsigned(expo))]

\* The digits ip.fp as the integer m and the power of ten x with
\* ip.fp = m * 10^x, m not divisible by 10.
Significand(ip, fp) ==
    IF ~IsDigits(ip) \/ ~IsDigits(fp) \/ Len(ip) + Len(fp) = 0
    THEN [ok |-> FALSE, m |-> 0, x |-> 0]
    ELSE [ok |-> TRUE,
          m |-> DigitsToInt(StripTrailingZeros(ip \o fp)),
          x |-> Len(ip) - Len(StripTrailingZeros(ip \o fp))]

ParseMantissa(mant) ==
    IF Find(mant, ".") = 0 THEN Significand(mant, "")
    ELSE Significand(SubSeq(mant, 1, Find(mant, ".") - 1),
                     SubSeq(mant, Find(mant, ".") + 1, Len(mant)))

MakeF64(neg, mant, expo) ==
    IF ~mant.ok \/ ~expo.ok THEN [ok |-> FALSE, v |-> Zero]
    ELSE IF mant.m = 0 THEN [ok |-> TRUE, v |-> Zero]
    ELSE [ok |-> TRUE,
          v |-> [m |-> IF neg THEN -mant.m ELSE mant.m, x |-> mant.x + expo.v]]

ParseUnsignedF64(neg, body, epos) ==
    IF epos = 0
    THEN MakeF64(neg, ParseMantissa(body), [ok |-> TRUE, v |-> 0])
    ELSE MakeF64(neg, ParseMantissa(SubSeq(body, 1, epos - 1)),
                 ParseExponent(SubSeq(body, epos + 1, Len(body))))

ParseF64(s) == ParseUnsignedF64(IsNegative(s), Unsigned(s), ExpPos(Unsigned(s)))

\* .parse().unwrap_or(0.0)
F64OrZero(s) == ParseF64(s).v

\* RinexNav::parse_float
parse_float(s) == F64OrZero(ReplaceD(Trim(s)))

\* RinexNav::parse_epoch: six whitespace-separated i32, each unwrap_or(0);
\* indexing parts[0..5] panics when there are fewer than six.
parse_epoch(s) ==
    LET parts == SplitWhitespace(s)
    IN  IF Len(parts) < 6 THEN [ok |-> FALSE, v |-> <<>>]
        ELSE [ok |-> TRUE,
              v |-> Tabulate(LAMBDA i : ParseInteger(parts[i], TRUE, 2147483647).v, 6)]

IsLeap(y) == (y % 4 = 0 /\ y % 100 # 0) \/ y % 400 = 0

DaysInMonth(y, m) ==
    IF m = 2 THEN (IF IsLeap(y) THEN 29 ELSE 28)
    ELSE IF m \in {4, 6, 9, 11} THEN 30 ELSE 31

\* Utc.with_ymd_and_hms(...) is LocalResult::Single exactly for a valid civil
\* date and time (a negative i32 cast to u32 is out of range).
ValidYmdHms(ep) ==
    /\ ep[2] \in 1..12
    /\ ep[3] >= 1 /\ ep[3] <= DaysInMonth(ep[1], ep[2])
    /\ ep[4] \in 0..23 /\ ep[5] \in 0..59 /\ ep[6] \in 0..59

\* Days from 1970-01-01 to the civil date.
DaysFromCivil(y, m, d) ==
    LET yy == IF m <= 2 THEN y - 1 ELSE y
        era == yy \div 400
        yoe == yy - era * 400
        mp == IF m > 2 THEN m - 3 ELSE m + 9
        doy == (153 * mp + 2) \div 5 + d - 1
        doe == yoe * 365 + yoe \div 4 - yoe \div 100 + doy
    IN  era * 146097 + doe - 719468

\* Seconds from the GPS epoch 1980-01-06T00:00:00 to the civil epoch.
SecondsSinceGpsEpoch(ep) ==
    (DaysFromCivil(ep[1], ep[2], ep[3]) - DaysFromCivil(1980, 1, 6)) * 86400
        + ep[4] * 3600 + ep[5] * 60 + ep[6]

\* RinexNav::epoch_to_gps_millis: with_ymd_and_hms(..).unwrap(), then
\* calculate_gps_time; whole milliseconds, the epoch having whole seconds.
epoch_to_gps_millis(ep) ==
    IF ~ValidYmdHms(ep) THEN [ok |-> FALSE, v |-> 0]
    ELSE [ok |-> TRUE,
          v |-> calculate_gps_time(SecondsSinceGpsEpoch(ep) * MICROS) \div MILLIS]

\* Columns of the record's first line, and the widths the parser tests.
MIN_LINE_LEN == 79
FIELD_WIDTH == 19
DATA_SKIP == 4
FIELDS_PER_LINE == 4
DATA_LINES == 7

FloatFields ==
    {"sv_clock_bias", "sv_clock_drift", "sv_clock_drift_rate",
     "iode", "crs", "delta_n", "m0", "cuc", "eccentricity", "cus", "sqrt_a",
     "toe", "cic", "omega0", "cis", "i0", "crc", "omega", "omega_dot",
     "idot", "codes_on_l2_channel", "gps_week", "l2_p_data_flag",
     "sv_accuracy", "sv_health", "tgd", "iodc",
     "transmission_time", "fit_interval"}

\* The fields parse_data_line assigns from values[0..3], by line_number 0..6.
DataFields ==
    << <<"iode", "crs", "delta_n", "m0">>,
       <<"cuc", "eccentricity", "cus", "sqrt_a">>,
       <<"toe", "cic", "omega0", "cis">>,
       <<"i0", "crc", "omega", "omega_dot">>,
       <<"idot", "codes_on_l2_channel", "gps_week", "l2_p_data_flag">>,
       <<"sv_accuracy", "sv_health", "tgd", "iodc">>,
       <<"transmission_time", "fit_interval">> >>

\* NavRecord { sat_id, epoch, gps_millis, sv_clock_*, ..Default::default() }
NavRecord(sat_id, epoch, gps_millis, bias, drift, drift_rate) ==
    [sat_id |-> sat_id, epoch |-> epoch, gps_millis |-> gps_millis,
     f |-> [n \in FloatFields |->
              CASE n = "sv_clock_bias" -> bias
                [] n = "sv_clock_drift" -> drift
                [] n = "sv_clock_drift_rate" -> drift_rate
                [] OTHER -> Zero]]

\* line[4..].chars().chunks(19).take(4), each chunk read as an f64 or 0.0.
DataValues(line) ==
    LET rest == SubSeq(line, DATA_SKIP + 1, Len(line))
        n == (Len(rest) + FIELD_WIDTH - 1) \div FIELD_WIDTH
        k == IF n < FIELDS_PER_LINE THEN n ELSE FIELDS_PER_LINE
        min(a, b) == IF a < b THEN a ELSE b
    IN  Tabulate(LAMBDA j :
            F64OrZero(Trim(ReplaceD(
                SubSeq(rest, (j - 1) * FIELD_WIDTH + 1,
                       min(j * FIELD_WIDTH, Len(rest)))))), k)

\* values.get(i).copied().unwrap_or(0.0), i counted from 1
ValueOrZero(values, i) == IF i <= Len(values) THEN values[i] ELSE Zero

\* RinexNav::parse_data_line; &line[4..] panics on a line shorter than 4.
parse_data_line(record, line, line_number) ==
    IF Len(line) < DATA_SKIP
    THEN [ok |-> FALSE, v |-> record]
    ELSE LET values == DataValues(line)
             names == DataFields[line_number + 1]
         IN  [ok |-> TRUE,
              v |-> [record EXCEPT !.f =
                       [n \in FloatFields |->
                          IF \E j \in 1..Len(names) : names[j] = n
                          THEN ValueOrZero(values,
                                   CHOOSE j \in 1..Len(names) : names[j] = n)
                          ELSE record.f[n]]]]

\* Byte offset past the last clock field, &line[61..80].
HeaderEnd == 80

\* The body of the record loop for a line of at least MIN_LINE_LEN bytes, up
\* to the construction of the record: the panic it ends in, or the record.
ParseRecordLine(line) ==
    LET sat_id == ParseInteger(Trim(Slice(line, 1, 3)), FALSE, 255).v
        epoch == parse_epoch(Slice(line, 3, 23))
        gps_millis == epoch_to_gps_millis(epoch.v)
    IN  IF ~epoch.ok
        THEN [panicked |-> "parse_epoch: index out of bounds", v |-> <<>>]
        ELSE IF ~gps_millis.ok
        THEN [panicked |-> "epoch_to_gps_millis: unwrap on None", v |-> <<>>]
        ELSE IF Len(line) < HeaderEnd
        THEN [panicked |-> "from_file: byte index 80 out of bounds", v |-> <<>>]
        ELSE [panicked |-> "no",
              v |-> NavRecord(sat_id, epoch.v, gps_millis.v,
                              parse_float(Slice(line, 23, 42)),
                              parse_float(Slice(line, 42, 61)),
                              parse_float(Slice(line, 61, 80)))]

\* for _ in 0..7 { if let Some(Ok(data_line)) = lines.next() { ... } }:
\* the continuation lines still to read are rest[k..]; line_count counts the
\* lines read.  Yields the record, the number of lines consumed, the panic.
RECURSIVE ParseDataLines(_, _, _, _)
ParseDataLines(record, rest, k, line_count) ==
    IF k = DATA_LINES \/ line_count >= Len(rest)
    THEN [panicked |-> "no", v |-> record, read |-> line_count]
    ELSE LET r == parse_data_line(record, rest[line_count + 1], line_count)
         IN  IF ~r.ok
             THEN [panicked |-> "parse_data_line: byte index 4 out of bounds",
                   v |-> record, read |-> line_count + 1]
             ELSE ParseDataLines(r.v, rest, k + 1, line_count + 1)

\* One iteration of the record loop of from_file, reading from line pos + 1:
\* the position after it, the records after it, the panic it ends in.
RecordIteration(f, p, recs) ==
    LET line == f[p + 1]
    IN  IF Len(line) < MIN_LINE_LEN
        THEN [pos |-> p + 1, records |-> recs, panicked |-> "no"]
        ELSE LET head == ParseRecordLine(line)
             IN  IF head.panicked # "no"
                 THEN [pos |-> p + 1, records |-> recs,
                       panicked |-> head.panicked]
                 ELSE LET d == ParseDataLines(head.v,
                                   SubSeq(f, p + 2, Len(f)), 0, 0)
                      IN  IF d.panicked # "no"
                          THEN [pos |-> p + 1 + d.read, records |-> recs,
                                panicked |-> d.panicked]
                          ELSE [pos |-> p + 1 + d.read,
                                records |-> Append(recs, d.v),
                                panicked |-> "no"]

END_OF_HEADER == "END OF HEADER"

\* The header loop: the position after the first line containing
\* END OF HEADER, or the end of the file.
RECURSIVE SkipHeader(_, _)
SkipHeader(f, p) ==
    IF p >= Len(f) THEN p
    ELSE IF Contains(f[p + 1], END_OF_HEADER) THEN p + 1
    ELSE SkipHeader(f, p + 1)

RECURSIVE RecordLoop(_, _, _)
RecordLoop(f, p, recs) ==
    IF p >= Len(f) THEN [records |-> recs, panicked |-> "no"]
    ELSE LET it == RecordIteration(f, p, recs)
         IN  IF it.panicked # "no"
             THEN [records |-> it.records, panicked |-> it.panicked]
             ELSE RecordLoop(f, it.pos, it.records)

\* RinexNav::from_file on the lines of an opened file.
from_file(f) == RecordLoop(f, SkipHeader(f, 0), <<>>)

\* ------------------------------------------------------------------ inputs
\* A NavRecord as the propagator reads it: reference time gps_millis (ms),
\* toe (s), m0 (1e-9 rad), mean motion n (1e-9 rad/s), eccentricity (1/1000).
Rec(g, toe, m0, n, e) ==
    [gps_millis |-> g, toe |-> toe, m0 |-> m0, n |-> n, eccentricity |-> e]

EphemerisLists ==
    { <<>>,
      <<Rec(0, 0, 100, 1, 500)>>,
      <<Rec(0, 0, 100, 1, 500), Rec(1000000, 1000, 4000000, 0, 10),
        Rec(2000000, 2000, 100, 2, 0)>>,
      <<Rec(900, 900, 100, 0, 500), Rec(902, 400000, 100000, 0, 900)>>,
      <<Rec(902, 605700, 100, 1, 500), Rec(900, 900, 100000, 0, 500)>> }

\* start, in microseconds since the GPS epoch: gps times 500 s and 900 s.
Starts == {482000000, 882000000}
\* duration and step, in microseconds.
Durations == {400, 3000, 4000, 2000000, 3000000}
Steps == {500, 1000, 1500, 1000000}

\* Lines of navigation files.
RECURSIVE Spaces(_)
Spaces(n) == IF n = 0 THEN "" ELSE Spaces(n - 1) \o " "

\* A number right-justified in a 19-column field.
Field(text) == Spaces(FIELD_WIDTH - Len(text)) \o text

\* satellite 17, 1980-01-06 00:16:40 (1000 s after the GPS epoch)
RecordPrefix == "G17 1980 01 06 00 16 40"

RecordLine80 ==
    RecordPrefix \o Field("1.500D+01") \o Field("-2.0E-03") \o Field("1.500D+01")
\* the same with the last column absent: 79 characters
RecordLine79 ==
    RecordPrefix \o Field("1.500D+01") \o Field("-2.0E-03") \o Spaces(9)
        \o "1.500D+01"
RecordLineShort == RecordPrefix \o Field("1.500D+01")

DataLine(a, b, c, d) ==
    Spaces(DATA_SKIP) \o Field(a) \o Field(b) \o Field(c) \o Field(d)

GoodData == DataLine("1.500D+01", "-2.0E-03", "400000", "0.25")
\* a blank field and a malformed number
BlankData == DataLine("400000", "", "1.2.3", "-2.0E-03")
\* two fields only, the second cut short
TwoFieldData == Spaces(DATA_SKIP) \o Field("-2.0E-03") \o "7"
\* shorter than the 4-column leading field
ShortData == "ab"

Block(first, data, n) == <<first>> \o Tabulate(LAMBDA i : data, n)

BlockChoices ==
    { Block(RecordLine80, GoodData, DATA_LINES),
      Block(RecordLine79, GoodData, DATA_LINES),
      Block(RecordLineShort, GoodData, DATA_LINES),
      <<RecordLine80, GoodData, BlankData, TwoFieldData, GoodData, "",
        GoodData, GoodData>>,
      <<RecordLine80, GoodData, BlankData, TwoFieldData, Spaces(DATA_SKIP),
        GoodData, BlankData, TwoFieldData>>,
      <<RecordLine80, GoodData, ShortData, GoodData, GoodData, GoodData,
        GoodData, GoodData>>,
      Block(RecordLine80, BlankData, 3) }

HeaderChoices ==
    { <<"     3.04           N: GNSS NAV DATA", Spaces(60) \o END_OF_HEADER>>,
      <<"     3.04           N: GNSS NAV DATA">> }

RECURSIVE Flatten(_)
Flatten(bs) == IF bs = <<>> THEN <<>> ELSE Head(bs) \o Flatten(Tail(bs))

\* The sequences of at most n blocks.
RECURSIVE BlockSeqsUpTo(_)
BlockSeqsUpTo(n) ==
    IF n = 0 THEN {<<>>}
    ELSE LET shorter == BlockSeqsUpTo(n - 1)
         IN  shorter \cup {Append(bs, b) : bs \in {t \in shorter : Len(t) = n - 1},
                                           b \in BlockChoices}

BlockSeqs == BlockSeqsUpTo(MaxBlocks)

\* ----------------------------------------------------------- state machine
PropIdle ==
    /\ states = <<>>
    /\ ret = <<>>
    /\ call = <<>>
    /\ before = <<>>

ParseIdle ==
    /\ file = <<>>
    /\ blocks = <<>>
    /\ pos = 0
    /\ phase = "idle"
    /\ records = <<>>
    /\ last = <<>>

\* A new Satellite (states: vec![]); no file is being read.
PropInit == PropIdle /\ ParseIdle /\ panicked = "no"

\* satellite.propagate(start, duration, step, &ephemeris_data)
PropagateCall ==
    /\ panicked = "no"
    /\ \E start \in Starts, duration \in Durations, step \in Steps,
          ephemeris_data \in EphemerisLists :
          /\ IF as_millis(step) = 0 THEN TRUE
             ELSE SampleCount(duration, step) <= MaxEpochs
          /\ LET out == Propagate(states, start, duration, step, ephemeris_data)
             IN  /\ states' = out.states
                 /\ ret' = out.ret
                 /\ panicked' = out.panicked
          /\ before' = states
          /\ call' = <<[start |-> start, duration |-> duration, step |-> step,
                        ephemeris_data |-> ephemeris_data]>>
    /\ UNCHANGED parseVars

PropNext == PropagateCall

PropSpec == PropInit /\ [][PropNext]_vars

\* from_file has opened a file and is about to read its first line.
ParseInit ==
    /\ PropIdle
    /\ panicked = "no"
    /\ \E hdr \in HeaderChoices, bs \in BlockSeqs :
          /\ file = hdr \o Flatten(bs)
          /\ blocks = bs
    /\ pos = 0
    /\ phase = "header"
    /\ records = <<>>
    /\ last = <<>>

\* One iteration of the header loop (or its end at the end of the file).
SkipHeaderLine ==
    /\ phase = "header" /\ panicked = "no"
    /\ IF pos >= Len(file)
       THEN pos' = pos /\ phase' = "records"
       ELSE /\ pos' = pos + 1
            /\ phase' = IF Contains(file[pos + 1], END_OF_HEADER)
                        THEN "records" ELSE "header"
    /\ UNCHANGED <<file, blocks, records, last, panicked>>
    /\ UNCHANGED propVars

\* One iteration of the record loop.
ParseRecord ==
    /\ phase = "records" /\ panicked = "no" /\ pos < Len(file)
    /\ LET it == RecordIteration(file, pos, records)
       IN  /\ pos' = it.pos
           /\ records' = it.records
           /\ panicked' = it.panicked
           /\ last' = <<[line |-> file[pos + 1],
                         data |-> SubSeq(file, pos + 2, it.pos)]>>
    /\ UNCHANGED <<file, blocks, phase>>
    /\ UNCHANGED propVars

\* The record loop ends at the end of the file: Self { records }.
Finish ==
    /\ phase = "records" /\ panicked = "no" /\ pos >= Len(file)
    /\ phase' = "done"
    /\ UNCHANGED <<file, blocks, pos, records, last, panicked>>
    /\ UNCHANGED propVars

ParseNext == SkipHeaderLine \/ ParseRecord \/ Finish

ParseSpec == ParseInit /\ [][ParseNext]_vars

\* ------------------------------------------------------------- properties
\* The arguments of the last propagate call and whether it returned.
Args == call[1]
Returned == call # <<>> /\ panicked = "no"
Selected(i) == states[i].position.nav_record

\* |reference time - t| with both in the same unit (microseconds).
TimeDistance(record, time) == Abs(record.gps_millis * MILLIS - time)

\* C1: for every epoch of a returned call, the record used has the minimum
\* absolute difference between its reference GPS time and the epoch's time,
\* both in the same unit, over all records given.
C1_NearestRecordSelected ==
    Returned =>
        \A i \in 1..Len(states) : \A j \in 1..Len(Args.ephemeris_data) :
            TimeDistance(Args.ephemeris_data[Selected(i)], states[i].time)
                <= TimeDistance(Args.ephemeris_data[j], states[i].time)

\* C2: for every epoch of a returned call, the corrected tk lies in
\* [-302400, 302400).
C2_TkWithinHalfWeek ==
    Returned =>
        \A i \in 1..Len(states) :
            /\ states[i].position.tk.s >= -HALF_WEEK
            /\ states[i].position.tk.s < HALF_WEEK

\* C3: after any sequence of returned propagate calls the state history is
\* exactly the states of the most recent call, its length is the returned
\* count, and no state of an earlier call remains.
C3_PropagationReplaces ==
    Returned =>
        /\ ret = <<Len(states)>>
        /\ states = BatchStates(Args.start,
                                SampleCount(Args.duration, Args.step),
                                Args.step, Args.ephemeris_data)

\* A returned call that found the states of an earlier call and left others.
C3_Witness ==
    Returned /\ before # <<>> /\ before # states /\ ret = <<Len(states)>>

\* C4: a propagate call that returns, made with a strictly positive step and a
\* non-empty record list, has produced exactly floor(duration / step) states
\* and returned that number.
C4_SampleCountIsFloor ==
    (Returned /\ Args.ephemeris_data # <<>> /\ Args.step > 0) =>
        /\ ret = <<Args.duration \div Args.step>>
        /\ Len(states) = Args.duration \div Args.step

\* C5: with a non-empty record list and a strictly positive step, whatever
\* the duration, propagate completes without aborting and returns the count
\* of states.
C5_OnlyEmptyEphemerisIsFatal ==
    (call # <<>> /\ Args.ephemeris_data # <<>> /\ Args.step > 0) =>
        /\ panicked = "no"
        /\ ret = <<Len(states)>>

\* The record iteration last run read a first line that it turned into a
\* record (no panic before the continuation lines).
HeaderAccepted(line) ==
    Len(line) >= MIN_LINE_LEN /\ ParseRecordLine(line).panicked = "no"

\* Columns from..to of a line (from 1, inclusive), as far as the line goes.
Columns(line, from, to) ==
    IF Len(line) < from THEN ""
    ELSE SubSeq(line, from, IF to < Len(line) THEN to ELSE Len(line))

\* A numeric field read leniently: its value, or 0.0 when it is missing or
\* does not parse.
LenientValue(text) ==
    IF ParseF64(Trim(ReplaceD(text))).ok THEN ParseF64(Trim(ReplaceD(text))).v
    ELSE Zero

DataField(line, j) ==
    Columns(line, DATA_SKIP + (j - 1) * FIELD_WIDTH + 1, DATA_SKIP + j * FIELD_WIDTH)

\* C6: whatever the continuation lines of a record are, parsing them never
\* aborts the parse, the record is emitted, and every field of theirs holds
\* the number in its columns, or 0.0 when that is missing or malformed.
C6_LenientDataLines ==
    (last # <<>> /\ HeaderAccepted(last[1].line)) =>
        /\ panicked = "no"
        /\ records # <<>>
        /\ \A k \in 1..Len(last[1].data) : \A j \in 1..Len(DataFields[k]) :
              records[Len(records)].f[DataFields[k][j]]
                  = LenientValue(DataField(last[1].data[k], j))

\* C7: for every epoch of a returned call, no record with the same key as the
\* selected one (equally close under the propagator's comparison) precedes it
\* in input order.
C7_TieSelectsFirst ==
    Returned =>
        \A i \in 1..Len(states) : \A j \in 1..Len(Args.ephemeris_data) :
            SelectionKey(Args.ephemeris_data[j], states[i].time)
                = SelectionKey(Args.ephemeris_data[Selected(i)], states[i].time)
            => Selected(i) <= j

\* A returned call with an epoch at which another record ties with the
\* selected one.
C7_Witness ==
    Returned /\
        \E i \in 1..Len(states) : \E j \in 1..Len(Args.ephemeris_data) :
            /\ j # Selected(i)
            /\ SelectionKey(Args.ephemeris_data[j], states[i].time)
                = SelectionKey(Args.ephemeris_data[Selected(i)], states[i].time)

ShortHeaderBlock(b) == Len(b[1]) < MIN_LINE_LEN

WellFormedBlock(b) ==
    /\ HeaderAccepted(b[1])
    /\ \A k \in 2..Len(b) : Len(b[k]) >= DATA_SKIP

FileEnded == phase = "done" \/ (phase # "idle" /\ panicked # "no")

\* C8: in a file of 8-line blocks, each well formed or with a first line
\* shorter than 79 characters, the parse does not abort and the records are
\* those of the file without the blocks whose first line is short.
C8_ShortHeaderDropsBlock ==
    (/\ FileEnded
     /\ \A n \in 1..Len(blocks) :
           /\ Len(blocks[n]) = 1 + DATA_LINES
           /\ ShortHeaderBlock(blocks[n]) \/ WellFormedBlock(blocks[n])) =>
        /\ panicked = "no"
        /\ records =
              from_file(SubSeq(file, 1, SkipHeader(file, 0)) \o
                        Flatten(SelectSeq(blocks,
                                          LAMBDA b : ~ShortHeaderBlock(b)))).records

\* Columns 4-23 of the line hold six integers that form a civil date and time.
EpochWellFormed(line) ==
    /\ parse_epoch(Slice(line, 3, 23)).ok
    /\ epoch_to_gps_millis(parse_epoch(Slice(line, 3, 23)).v).ok

\* C9: a record first line of at least 79 characters (with a well-formed
\* epoch) is accepted without aborting, and the record it yields has the
\* satellite id, the epoch and the clock fields of columns 24-42, 43-61, 62-80.
C9_Line79Accepted ==
    (/\ last # <<>>
     /\ Len(last[1].line) >= MIN_LINE_LEN
     /\ EpochWellFormed(last[1].line)) =>
        /\ panicked \in {"no", "parse_data_line: byte index 4 out of bounds"}
        /\ panicked = "no" =>
              /\ records # <<>>
              /\ records[Len(records)].sat_id
                    = ParseInteger(Trim(Columns(last[1].line, 2, 3)), FALSE, 255).v
              /\ records[Len(records)].epoch
                    = parse_epoch(Columns(last[1].line, 4, 23)).v
              /\ records[Len(records)].f["sv_clock_bias"]
                    = LenientValue(Columns(last[1].line, 24, 42))
              /\ records[Len(records)].f["sv_clock_drift"]
                    = LenientValue(Columns(last[1].line, 43, 61))
              /\ records[Len(records)].f["sv_clock_drift_rate"]
                    = LenientValue(Columns(last[1].line, 62, 80))

\* C10: the position (eccentric anomaly, tk, record) stored for an epoch of a
\* returned call equals the one computed when that epoch is propagated alone.
C10_EpochIndependent ==
    Returned =>
        \A i \in 1..Len(states) :
            states[i].position =
                BatchStates(Args.start + Args.step * (i - 1), 1, Args.step,
                            Args.ephemeris_data)[1].position

====
